---- MODULE Spec2Model ----
(***************************************************************************)
(* Model of the desim discrete-event simulation engine (src/src/lib.rs)    *)
(* and of its counting resource SimpleResource (src/src/resources.rs).     *)
(*                                                                         *)
(* Time is f64 in the source; the model uses integers (no NaN, no          *)
(* rounding).  Option<X> is modelled as a sequence of length 0 or 1.       *)
(* ProcessId and ResourceId are 0-based as in the source; the registry     *)
(* sequences are indexed with id + 1.                                      *)
(***************************************************************************)
EXTENDS Integers, Sequences, FiniteSets, TLC

\* ------------------------------------------------------------------ bounds
MaxSteps == 4
MaxProcs == 2
MaxRes == 1
MaxSched == 3
MaxTime == 1
MaxDelay == 1
MaxQuantity == 1
\* the scripted tests: the latest start of the first event, and the number
\* of timeouts the counting process yields (its loop has no end)
MaxStart == 1
MaxTimeouts == 4
\* the store: its largest capacity, the processes that push and pull, and
\* the number of values pushed and of pulls made
MaxCapacity == 2
MaxProducers == 2
MaxConsumers == 2
MaxPushes == 4
MaxPulls == 4
\* tests::resource: the two holding times and the start of the second process
HoldA == 7
HoldB == 3
StartB == 2

Pids == 0..(MaxProcs - 1)
Rids == 0..(MaxRes - 1)
Times == 0..MaxTime

\* ------------------------------------------------------------ Effect, state
TimeOut(t) == [tag |-> "TimeOut", t |-> t, id |-> 0]
EventEffect(t, p) == [tag |-> "Event", t |-> t, id |-> p]
Request(r) == [tag |-> "Request", t |-> 0, id |-> r]
Release(r) == [tag |-> "Release", t |-> 0, id |-> r]
Wait == [tag |-> "Wait", t |-> 0, id |-> 0]
Trace == [tag |-> "Trace", t |-> 0, id |-> 0]

\* a value of the user type T: the effect it carries and its logging flag
State(effect, log) == [effect |-> effect, log |-> log]

get_effect(y) == y.effect
should_log(y) == y.log

\* the state the owner of the simulation passes to schedule_event
InitStates == {State(TimeOut(0), TRUE)}

\* ---------------------------------------------------------- process bodies
\* A process body is the list of the states it yields, one per resume, and
\* whether it starts over at the end (a loop) or returns.
Body(code, loop) == [code |-> code, loop |-> loop]

\* tests::resource: request, hold for a while, release
Client(r) ==
    Body(<<State(Request(r), TRUE), State(TimeOut(MaxDelay), FALSE),
           State(Release(r), TRUE)>>, FALSE)
\* releases a resource it does not hold, then requests it
Rogue(r) == Body(<<State(Release(r), TRUE), State(Request(r), TRUE)>>, FALSE)
\* a negative TimeOut (an f64 is not constrained to be positive)
Backwards == Body(<<State(TimeOut(0 - 1), TRUE), State(Trace, TRUE)>>, FALSE)
\* schedules another process, then lies dormant
Notifier(p) == Body(<<State(EventEffect(MaxDelay, p), TRUE), State(Wait, FALSE)>>, FALSE)
\* tests::run: a periodic tick
Ticker == Body(<<State(TimeOut(MaxDelay), TRUE)>>, TRUE)
\* returns at its first resume
Empty == Body(<<>>, FALSE)

Bodies ==
    {Client(r) : r \in Rids} \cup {Rogue(r) : r \in Rids}
        \cup {Backwards, Notifier(0), Ticker, Empty}

\* ------------------------------------------------------------------- Event
\* seq is not a field of the source's Event: it numbers the events in the
\* order in which they are created, to state ordering properties.
Event_new(time, process, state, seq) ==
    [time |-> time, process |-> process, state |-> state, seq |-> seq]

\* Reverse(a) <= Reverse(b), with Event ordered by time alone
ReverseLe(a, b) == b.time <= a.time

VARIABLES time, steps, processes, future_events, processed_events, resources,
          panicked, nextSeq, last, held, rogue, nsched, until, npopped,
          scenario, entered, stores, values

vars == <<time, steps, processes, future_events, processed_events, resources,
          panicked, nextSeq, last, held, rogue, nsched, until, npopped,
          scenario, entered, stores, values>>

\* ------------------------------------------- BinaryHeap<Reverse<Event<T>>>
\* The heap is the array of std::collections::BinaryHeap (a max-heap of
\* Reverse<Event>, hence a min-heap on time); positions are 0-based.
Get(data, i) == data[i + 1]
Put(data, i, x) == [data EXCEPT ![i + 1] = x]

saturating_sub(a, b) == IF a >= b THEN a - b ELSE 0

RECURSIVE sift_up(_, _, _, _)
\* the hole is at pos and elem is the element taken out of it
sift_up(data, start, pos, elem) ==
    IF pos > start
    THEN LET parent == (pos - 1) \div 2 IN
         IF ReverseLe(elem, Get(data, parent))
         THEN Put(data, pos, elem)
         ELSE sift_up(Put(data, pos, Get(data, parent)), start, parent, elem)
    ELSE Put(data, pos, elem)

RECURSIVE sift_down_to_bottom(_, _, _, _)
\* moves the hole down to a leaf along the greater children, then sifts
\* elem up from there
sift_down_to_bottom(data, start, pos, elem) ==
    LET end == Len(data)
        child == 2 * pos + 1
    IN IF child <= saturating_sub(end, 2)
       THEN LET c == IF ReverseLe(Get(data, child), Get(data, child + 1))
                     THEN child + 1 ELSE child
            IN sift_down_to_bottom(Put(data, pos, Get(data, c)), start, c, elem)
       ELSE IF child = end - 1
            THEN sift_up(Put(data, pos, Get(data, child)), start, child, elem)
            ELSE sift_up(data, start, pos, elem)

\* BinaryHeap::push
push(data, item) == sift_up(Append(data, item), 0, Len(data), item)

\* BinaryHeap::pop: the popped item (None on an empty heap) and the new array
pop(data) ==
    IF Len(data) = 0
    THEN [item |-> <<>>, data |-> data]
    ELSE LET item == data[Len(data)]
             rest == SubSeq(data, 1, Len(data) - 1)
         IN IF Len(rest) = 0
            THEN [item |-> <<item>>, data |-> rest]
            ELSE [item |-> <<rest[1]>>,
                  data |-> sift_down_to_bottom(rest, 0, 0, item)]

\* ---------------------------------------------------------- SimpleResource
SimpleResource_new(quantity) ==
    [quantity |-> quantity, available |-> quantity, queue |-> <<>>]

\* mutant: the request is granted whether or not a unit is available
allocate_or_enqueue_always_grants(res, event) ==
    [res |-> [res EXCEPT !.available = IF @ > 0 THEN @ - 1 ELSE 0],
     ret |-> <<event>>, panic |-> FALSE]

\* mutant: a request that has to wait is queued and returned as well
allocate_or_enqueue_both(res, event) ==
    IF res.available > 0
    THEN [res |-> [res EXCEPT !.available = @ - 1],
          ret |-> <<event>>, panic |-> FALSE]
    ELSE [res |-> [res EXCEPT !.queue = Append(@, event)],
          ret |-> <<event>>, panic |-> FALSE]

\* mutant: the last unit is never given out (available > 1)
allocate_or_enqueue_keeps_one(res, event) ==
    IF res.available > 1
    THEN [res |-> [res EXCEPT !.available = @ - 1],
          ret |-> <<event>>, panic |-> FALSE]
    ELSE [res |-> [res EXCEPT !.queue = Append(@, event)],
          ret |-> <<>>, panic |-> FALSE]

\* the resource after the call, the returned Option<Event>, and whether the
\* call panicked
allocate_or_enqueue(res, event) ==
    IF res.available > 0
    THEN [res |-> [res EXCEPT !.available = @ - 1],
          ret |-> <<event>>, panic |-> FALSE]
    ELSE [res |-> [res EXCEPT !.queue = Append(@, event)],
          ret |-> <<>>, panic |-> FALSE]

\* mutant: the waiter woken is the last of the queue (pop_back)
release_and_schedule_next_lifo(res, event) ==
    IF Len(res.queue) > 0
    THEN [res |-> [res EXCEPT !.queue = SubSeq(@, 1, Len(@) - 1)],
          ret |-> <<[res.queue[Len(res.queue)] EXCEPT !.time = event.time]>>,
          panic |-> FALSE]
    ELSE IF res.available < res.quantity
         THEN [res |-> [res EXCEPT !.available = @ + 1],
               ret |-> <<>>, panic |-> FALSE]
         ELSE [res |-> res, ret |-> <<>>, panic |-> TRUE]

\* mutant: the head waiter is popped and not returned
release_and_schedule_next_forgets(res, event) ==
    IF Len(res.queue) > 0
    THEN [res |-> [res EXCEPT !.queue = Tail(@)],
          ret |-> <<>>, panic |-> FALSE]
    ELSE IF res.available < res.quantity
         THEN [res |-> [res EXCEPT !.available = @ + 1],
               ret |-> <<>>, panic |-> FALSE]
         ELSE [res |-> res, ret |-> <<>>, panic |-> TRUE]

\* mutant: the waiter is returned with the time of its request
release_and_schedule_next_keeps_time(res, event) ==
    IF Len(res.queue) > 0
    THEN [res |-> [res EXCEPT !.queue = Tail(@)],
          ret |-> <<Head(res.queue)>>, panic |-> FALSE]
    ELSE IF res.available < res.quantity
         THEN [res |-> [res EXCEPT !.available = @ + 1],
               ret |-> <<>>, panic |-> FALSE]
         ELSE [res |-> res, ret |-> <<>>, panic |-> TRUE]

\* mutant: a unit is freed also when the resource goes to a waiter
release_and_schedule_next_frees_too(res, event) ==
    IF Len(res.queue) > 0
    THEN [res |-> [res EXCEPT !.queue = Tail(@), !.available = @ + 1],
          ret |-> <<[Head(res.queue) EXCEPT !.time = event.time]>>,
          panic |-> FALSE]
    ELSE IF res.available < res.quantity
         THEN [res |-> [res EXCEPT !.available = @ + 1],
               ret |-> <<>>, panic |-> FALSE]
         ELSE [res |-> res, ret |-> <<>>, panic |-> TRUE]

\* mutant: with no waiter the unit is not given back
release_and_schedule_next_frees_nothing(res, event) ==
    IF Len(res.queue) > 0
    THEN [res |-> [res EXCEPT !.queue = Tail(@)],
          ret |-> <<[Head(res.queue) EXCEPT !.time = event.time]>>,
          panic |-> FALSE]
    ELSE IF res.available < res.quantity
         THEN [res |-> res, ret |-> <<>>, panic |-> FALSE]
         ELSE [res |-> res, ret |-> <<>>, panic |-> TRUE]

\* mutant: the assertion is made before the wait queue is looked at
release_and_schedule_next_asserts_first(res, event) ==
    IF res.available >= res.quantity
    THEN [res |-> res, ret |-> <<>>, panic |-> TRUE]
    ELSE IF Len(res.queue) > 0
         THEN [res |-> [res EXCEPT !.queue = Tail(@)],
               ret |-> <<[Head(res.queue) EXCEPT !.time = event.time]>>,
               panic |-> FALSE]
         ELSE [res |-> [res EXCEPT !.available = @ + 1],
               ret |-> <<>>, panic |-> FALSE]

\* mutant: the assertion available < quantity is missing
release_and_schedule_next_unchecked(res, event) ==
    IF Len(res.queue) > 0
    THEN [res |-> [res EXCEPT !.queue = Tail(@)],
          ret |-> <<[Head(res.queue) EXCEPT !.time = event.time]>>,
          panic |-> FALSE]
    ELSE [res |-> [res EXCEPT !.available = @ + 1],
          ret |-> <<>>, panic |-> FALSE]

\* mutant: the waiter is returned with the state of the release event
release_and_schedule_next_overwrites_state(res, event) ==
    IF Len(res.queue) > 0
    THEN [res |-> [res EXCEPT !.queue = Tail(@)],
          ret |-> <<[event EXCEPT !.process = Head(res.queue).process]>>,
          panic |-> FALSE]
    ELSE IF res.available < res.quantity
         THEN [res |-> [res EXCEPT !.available = @ + 1],
               ret |-> <<>>, panic |-> FALSE]
         ELSE [res |-> res, ret |-> <<>>, panic |-> TRUE]

release_and_schedule_next(res, event) ==
    IF Len(res.queue) > 0
    THEN [res |-> [res EXCEPT !.queue = Tail(@)],
          ret |-> <<[Head(res.queue) EXCEPT !.time = event.time]>>,
          panic |-> FALSE]
    ELSE IF res.available < res.quantity
         THEN [res |-> [res EXCEPT !.available = @ + 1],
               ret |-> <<>>, panic |-> FALSE]
         ELSE [res |-> res, ret |-> <<>>, panic |-> TRUE]

\* -------------------------------------------------------------- Simulation
\* Generator::resume: the GeneratorState and the generator afterwards
Yielded(y) == [tag |-> "Yielded", y |-> <<y>>]
Complete == [tag |-> "Complete", y |-> <<>>]
resume(generator, ctx) ==
    IF generator.code = <<>>
    THEN [state |-> Complete, generator |-> generator]
    ELSE [state |-> Yielded(Head(generator.code)),
          generator |->
              IF generator.loop
              THEN [generator EXCEPT !.code = Append(Tail(@), Head(@))]
              ELSE [generator EXCEPT !.code = Tail(@)]]

SimContext(t, state) == [time |-> t, state |-> state]

\* mutant: the step does not set the time
advance_time_stale(now, event) == now

\* self.time = event.time()
advance_time(now, event) == event.time

\* mutant: the generator of a completed process stays in its slot
take_nothing(procs, process) == procs

\* self.processes[event.process()].take()
take(procs, process) == [procs EXCEPT ![process + 1] = <<>>]

\* ------------------------------------------------------------ EndCondition
Time(t) == [tag |-> "Time", v |-> t]
NoEvents == [tag |-> "NoEvents", v |-> 0]
NSteps(n) == [tag |-> "NSteps", v |-> n]

\* the conditions the owner of the simulation passes to run
Untils == {Time(MaxTime), NoEvents, NSteps(MaxSteps - 2)}

\* what is being run (not program state): kind "free" is a simulation built
\* and driven by arbitrary calls, limit caps the number of steps
Free == [kind |-> "free", limit |-> MaxSteps, t0 |-> 0, d |-> <<>>]
\* examples/store.rs: processes that push to and pull from a store
StoreTest == [Free EXCEPT !.kind = "store"]
\* the same, with fewer steps and calls of run allowed
FreeRun == [Free EXCEPT !.kind = "run", !.limit = MaxSteps - 1]

\* impl SimState for Effect: the state is the effect, and is always logged
EffectState(effect) == State(effect, TRUE)

\* tests::it_works: the yields of a process that counts, d[i] the i-th delay
Counter(d) ==
    Body([i \in 1..Len(d) |-> EffectState(TimeOut(d[i]))], FALSE)
\* tests::resource: a process that locks the resource for d time units
ClientHold(r, d) ==
    Body(<<EffectState(Request(r)), EffectState(TimeOut(d)),
           EffectState(Release(r))>>, FALSE)

\* tests::it_works with first event at t0 and delays d, driven by step
Timeouts(t0, d) ==
    [kind |-> "it_works", limit |-> Len(d), t0 |-> t0, d |-> d]
\* tests::resource with holding times a and b and the second process
\* started at s, driven by run(NoEvents); each process is resumed once per
\* yield and once more to complete
Contention(a, b, s) ==
    [kind |-> "resource", limit |-> 2 * (Len(ClientHold(0, a).code) + 1),
     t0 |-> s, d |-> <<a, b>>]
Scenarios ==
    {Timeouts(t0, d) : t0 \in 0..MaxStart,
                       d \in [1..MaxTimeouts -> 1..MaxTimeouts]}
        \cup {Contention(a, b, s) : a \in 1..HoldA, b \in 1..HoldB,
                                    s \in 0..StartB}

\* the values pushed, the consumers that pulled, and the values handed to
\* consumers, each in the order it happened (not program state)
NoValues == [pushed |-> <<>>, pulls |-> <<>>, pulled |-> <<>>]

\* what the last step did (not program state): kind is "none" before the
\* first step, "empty" for a step on an empty queue,
\* "noresume" for a step that failed before resuming, and the generator's
\* answer otherwise; event is the popped event, ctx the context of the
\* resume, y the yielded state, woke the event a Release got back from the
\* resource (the waiter, numbered as it was queued), granted the process a
\* resource unit was given to
NoLast ==
    [kind |-> "none", event |-> <<>>, ctx |-> <<>>, y |-> <<>>,
     woke |-> <<>>, granted |-> <<>>]

Init ==
    /\ time = 0
    /\ steps = 0
    /\ processes = <<>>
    /\ future_events = <<>>
    /\ processed_events = <<>>
    /\ resources = <<>>
    /\ panicked = FALSE
    /\ nextSeq = 0
    /\ last = NoLast
    /\ held = <<>>
    /\ rogue = <<>>
    /\ nsched = 0
    /\ until = <<>>
    /\ npopped = 0
    /\ scenario \in {Free, FreeRun, StoreTest} \cup Scenarios
    /\ entered = <<>>
    /\ stores = <<>>
    /\ values = NoValues

create_process ==
    /\ ~panicked
    /\ until = <<>>
    /\ Len(processes) < MaxProcs
    /\ \E process \in Bodies : processes' = Append(processes, <<process>>)
    /\ UNCHANGED <<time, steps, future_events, processed_events, resources,
                   panicked, nextSeq, last, held, rogue, nsched, until,
                   npopped, scenario, entered>>
    /\ UNCHANGED <<stores, values>>

create_resource ==
    /\ ~panicked
    /\ until = <<>>
    /\ Len(resources) < MaxRes
    /\ \E quantity \in 0..MaxQuantity :
          resources' = Append(resources, SimpleResource_new(quantity))
    /\ held' = Append(held, [p \in Pids |-> 0])
    /\ rogue' = Append(rogue, FALSE)
    /\ UNCHANGED <<time, steps, processes, future_events, processed_events,
                   panicked, nextSeq, last, nsched, until, npopped, scenario,
                   entered>>
    /\ UNCHANGED <<stores, values>>

\* the time argument taken as a delay from the current time
schedule_event_delta ==
    /\ ~panicked
    /\ until = <<>>
    /\ nsched < MaxSched
    /\ \E t \in Times, process \in Pids, state \in InitStates :
          future_events' =
              push(future_events, Event_new(time + t, process, state, nextSeq))
    /\ nextSeq' = nextSeq + 1
    /\ nsched' = nsched + 1
    /\ UNCHANGED <<time, steps, processes, processed_events, resources,
                   panicked, last, held, rogue, until, npopped, scenario,
                   entered>>
    /\ UNCHANGED <<stores, values>>

\* Simulation::schedule_event
schedule_event ==
    /\ ~panicked
    /\ until = <<>>
    /\ nsched < MaxSched
    /\ \E t \in Times, process \in Pids, state \in InitStates :
          future_events' =
              push(future_events, Event_new(t, process, state, nextSeq))
    /\ nextSeq' = nextSeq + 1
    /\ nsched' = nsched + 1
    /\ UNCHANGED <<time, steps, processes, processed_events, resources,
                   panicked, last, held, rogue, until, npopped, scenario,
                   entered>>
    /\ UNCHANGED <<stores, values>>

\* mutant: the entry is written over the last one
log_processed_event_overwrites(log, event, sim_state) ==
    IF should_log(sim_state)
    THEN IF log = <<>> THEN <<<<event, sim_state>>>>
         ELSE [log EXCEPT ![Len(log)] = <<event, sim_state>>]
    ELSE log

\* mutant: should_log is not consulted
log_processed_event_always(log, event, sim_state) ==
    Append(log, <<event, sim_state>>)

log_processed_event(log, event, sim_state) ==
    IF should_log(sim_state)
    THEN Append(log, <<event, sim_state>>)
    ELSE log

\* the TimeOut delay taken as an absolute time
timeout_event_absolute(now, event, y, n) ==
    Event_new(get_effect(y).t, event.process, y, n)

\* the event a yielded TimeOut makes
timeout_event(now, event, y, n) ==
    Event_new(now + get_effect(y).t, event.process, y, n)

\* mutant: the time of an Event effect taken as an absolute time
notify_event_absolute(now, event, y, n) ==
    Event_new(get_effect(y).t, get_effect(y).id, y, n)

\* the event a yielded Event effect makes
notify_event(now, event, y, n) ==
    Event_new(get_effect(y).t + now, get_effect(y).id, y, n)

\* mutant: a waiting process is queued again at the current time
wait_arm_reschedules(fe, now, event, y, n) ==
    push(fe, Event_new(now, event.process, y, n))

\* the Wait arm: nothing is pushed
wait_arm(fe, now, event, y, n) == fe

\* mutant: the tracing process is not queued again
trace_arm_nothing(fe, now, event, y, n) == fe

\* the Trace arm: the process is queued again at the current time
trace_arm(fe, now, event, y, n) ==
    push(fe, Event_new(now, event.process, y, n))

\* mutant: the releaser is queued again only when no waiter was returned
release_pushes_one(fe, ret, release_event, n) ==
    IF ret # <<>> THEN push(fe, [ret[1] EXCEPT !.seq = n])
    ELSE push(fe, release_event)

\* the pushes of the Release arm: the event the resource returned, if any,
\* then the release event
release_pushes(fe, ret, release_event, n) ==
    LET fe1 == IF ret # <<>> THEN push(fe, [ret[1] EXCEPT !.seq = n]) ELSE fe
    IN push(fe1, release_event)

\* the "process event" match of step for a yielded state y: the new queue and
\* resources, whether a panic unwound the step, and the hand-over made
process_event(fe, rs, now, event, y, n) ==
    LET effect == get_effect(y)
        same == [future_events |-> fe, resources |-> rs, panicked |-> FALSE,
                 woke |-> <<>>, granted |-> <<>>]
    IN CASE effect.tag = "TimeOut" ->
              [same EXCEPT !.future_events =
                  push(fe, timeout_event(now, event, y, n))]
         [] effect.tag = "Event" ->
              [same EXCEPT !.future_events =
                  push(fe, notify_event(now, event, y, n))]
         [] effect.tag = "Request" ->
              IF effect.id >= Len(rs)
              THEN [same EXCEPT !.panicked = TRUE]
              ELSE LET request_event == Event_new(now, event.process, y, n)
                       a == allocate_or_enqueue(rs[effect.id + 1], request_event)
                   IN [same EXCEPT
                         !.resources = [rs EXCEPT ![effect.id + 1] = a.res],
                         !.future_events =
                             IF a.ret # <<>> THEN push(fe, a.ret[1]) ELSE fe,
                         !.granted =
                             IF a.ret # <<>> THEN <<a.ret[1].process>> ELSE <<>>]
         [] effect.tag = "Release" ->
              IF effect.id >= Len(rs)
              THEN [same EXCEPT !.panicked = TRUE]
              ELSE LET release_event == Event_new(now, event.process, y, n + 1)
                       r == release_and_schedule_next(rs[effect.id + 1],
                                                      release_event)
                   IN IF r.panic
                      THEN [same EXCEPT !.panicked = TRUE]
                      ELSE [same EXCEPT
                              !.resources = [rs EXCEPT ![effect.id + 1] = r.res],
                              !.future_events =
                                  release_pushes(fe, r.ret, release_event, n),
                              !.woke = r.ret,
                              !.granted =
                                  IF r.ret # <<>> THEN <<r.ret[1].process>>
                                  ELSE <<>>]
         [] effect.tag = "Wait" ->
              [same EXCEPT !.future_events = wait_arm(fe, now, event, y, n)]
         [] effect.tag = "Trace" ->
              [same EXCEPT !.future_events = trace_arm(fe, now, event, y, n)]

\* the units each process was granted and has not released, after a yield
held_after(h, y, d, p) ==
    LET effect == get_effect(y)
        r == effect.id + 1
        h1 == IF effect.tag = "Release" /\ ~d.panicked /\ h[r][p] > 0
              THEN [h EXCEPT ![r][p] = @ - 1] ELSE h
    IN IF effect.tag \in {"Request", "Release"} /\ d.granted # <<>>
       THEN [h1 EXCEPT ![r][d.granted[1]] = @ + 1]
       ELSE h1

\* a process yielded Release for a resource of which it held no unit
rogue_after(rg, h, y, p) ==
    LET effect == get_effect(y) IN
    IF effect.tag = "Release" /\ effect.id < Len(rg) /\ h[effect.id + 1][p] = 0
    THEN [rg EXCEPT ![effect.id + 1] = TRUE]
    ELSE rg

\* Simulation::step, called by the owner or by run
Simulation_step ==
    /\ ~panicked
    /\ steps < scenario.limit
    /\ steps' = steps + 1
    /\ nextSeq' = nextSeq + 2
    /\ npopped' = IF Len(future_events) = 0 THEN npopped ELSE npopped + 1
    /\ UNCHANGED <<nsched, scenario, entered, stores, values>>
    /\ LET popped == pop(future_events) IN
       IF popped.item = <<>>
       THEN /\ last' = [NoLast EXCEPT !.kind = "empty"]
            /\ UNCHANGED <<time, processes, future_events, processed_events,
                           resources, panicked, held, rogue>>
       ELSE LET event == popped.item[1] IN
            /\ time' = advance_time(time, event)
            /\ IF \/ event.process >= Len(processes)
                  \/ processes[event.process + 1] = <<>>
               THEN /\ panicked' = TRUE
                    /\ future_events' = popped.data
                    /\ last' = [NoLast EXCEPT !.kind = "noresume",
                                              !.event = <<event>>]
                    /\ UNCHANGED <<processes, processed_events, resources,
                                   held, rogue>>
               ELSE LET ctx == SimContext(time', event.state)
                        resumed == resume(processes[event.process + 1][1], ctx)
                        gstatepin == resumed.state
                    IN IF gstatepin.tag = "Yielded"
                       THEN LET y == gstatepin.y[1]
                                d == process_event(popped.data, resources,
                                                   time', event, y, nextSeq)
                            IN /\ processed_events' =
                                     log_processed_event(processed_events, event, y)
                               /\ future_events' = d.future_events
                               /\ resources' = d.resources
                               /\ panicked' = d.panicked
                               /\ held' = IF d.panicked THEN held
                                          ELSE held_after(held, y, d, event.process)
                               /\ rogue' = rogue_after(rogue, held, y, event.process)
                               /\ last' = [kind |-> "Yielded", event |-> <<event>>,
                                           ctx |-> <<ctx>>, y |-> <<y>>,
                                           woke |-> d.woke, granted |-> d.granted]
                               /\ processes' =
                                     [processes EXCEPT ![event.process + 1] =
                                         <<resumed.generator>>]
                       ELSE /\ processes' = take(processes, event.process)
                            /\ future_events' = popped.data
                            /\ last' = [NoLast EXCEPT !.kind = "Complete",
                                                      !.event = <<event>>,
                                                      !.ctx = <<ctx>>]
                            /\ UNCHANGED <<processed_events, resources, panicked,
                                           held, rogue>>

\* a call of step by the owner of the simulation
step ==
    /\ until = <<>>
    /\ Simulation_step
    /\ UNCHANGED until

\* the Time condition met only after the time has passed it
check_ending_condition_after(ending_condition) ==
    CASE ending_condition.tag = "Time" -> time > ending_condition.v
      [] ending_condition.tag = "NoEvents" -> Len(future_events) = 0
      [] ending_condition.tag = "NSteps" -> steps = ending_condition.v

\* the NoEvents condition met with one event left
check_ending_condition_one_left(ending_condition) ==
    CASE ending_condition.tag = "Time" -> time >= ending_condition.v
      [] ending_condition.tag = "NoEvents" -> Len(future_events) <= 1
      [] ending_condition.tag = "NSteps" -> steps = ending_condition.v

\* mutant: every condition is met as well when the queue is empty
check_ending_condition_or_drained(ending_condition) ==
    \/ Len(future_events) = 0
    \/ CASE ending_condition.tag = "Time" -> time >= ending_condition.v
          [] ending_condition.tag = "NoEvents" -> Len(future_events) = 0
          [] ending_condition.tag = "NSteps" -> steps = ending_condition.v

\* Simulation::check_ending_condition
check_ending_condition(ending_condition) ==
    CASE ending_condition.tag = "Time" -> time >= ending_condition.v
      [] ending_condition.tag = "NoEvents" -> Len(future_events) = 0
      [] ending_condition.tag = "NSteps" -> steps = ending_condition.v

\* Simulation::run: the call, one turn of its loop, and its return; until
\* holds the condition while the loop runs
run ==
    /\ ~panicked
    /\ until = <<>>
    /\ scenario.kind = "run"
    /\ \E ending_condition \in Untils : until' = <<ending_condition>>
    /\ UNCHANGED <<time, steps, processes, future_events, processed_events,
                   resources, panicked, nextSeq, last, held, rogue, nsched,
                   npopped, scenario>>
    /\ entered' = <<[steps |-> steps, npopped |-> npopped]>>
    /\ UNCHANGED <<stores, values>>

run_step ==
    /\ until # <<>>
    /\ ~check_ending_condition(until[1])
    /\ Simulation_step
    /\ UNCHANGED until

run_return ==
    /\ ~panicked
    /\ until # <<>>
    /\ check_ending_condition(until[1])
    /\ until' = <<>>
    /\ UNCHANGED <<time, steps, processes, future_events, processed_events,
                   resources, panicked, nextSeq, last, held, rogue, nsched,
                   npopped, scenario>>
    /\ entered' = <<>>
    /\ UNCHANGED <<stores, values>>

Next == create_process \/ create_resource \/ schedule_event \/ step

NextRun == Next \/ run \/ run_step \/ run_return

InitFree == Init /\ scenario = Free
Spec == InitFree /\ [][Next]_vars

\* the same simulations, driven by run as well
InitRun == Init /\ scenario = FreeRun
SpecRun == InitRun /\ [][NextRun]_vars

\* ------------------------------------------------------- the crate's tests
\* tests::it_works up to its first step
it_works_setup ==
    /\ scenario.kind = "it_works"
    /\ processes = <<>>
    /\ steps = 0
    /\ processes' = <<<<Counter(scenario.d)>>>>
    /\ future_events' =
           push(future_events,
                Event_new(scenario.t0, 0, EffectState(TimeOut(0)), nextSeq))
    /\ nextSeq' = nextSeq + 1
    /\ nsched' = nsched + 1
    /\ UNCHANGED <<time, steps, processed_events, resources, panicked, last,
                   held, rogue, until, npopped, scenario, entered>>
    /\ UNCHANGED <<stores, values>>

\* tests::resource up to the call of run
resource_setup ==
    /\ scenario.kind = "resource"
    /\ processes = <<>>
    /\ steps = 0
    /\ resources' = <<SimpleResource_new(1)>>
    /\ held' = <<[p \in Pids |-> 0]>>
    /\ rogue' = <<FALSE>>
    /\ processes' = <<<<ClientHold(0, scenario.d[1])>>,
                      <<ClientHold(0, scenario.d[2])>>>>
    /\ future_events' =
           push(push(future_events,
                     Event_new(0, 0, EffectState(TimeOut(0)), nextSeq)),
                Event_new(scenario.t0, 1, EffectState(TimeOut(scenario.t0)),
                          nextSeq + 1))
    /\ nextSeq' = nextSeq + 2
    /\ nsched' = nsched + 2
    /\ until' = <<NoEvents>>
    /\ entered' = <<[steps |-> steps, npopped |-> npopped]>>
    /\ UNCHANGED <<time, steps, processed_events, panicked, last, npopped,
                   scenario>>
    /\ UNCHANGED <<stores, values>>

NextTests ==
    it_works_setup \/ resource_setup \/ step \/ run_step \/ run_return

\* the crate's tests, with their numbers drawn from ranges
InitTests == Init /\ scenario \in Scenarios
SpecTests == InitTests /\ [][NextTests]_vars

\* ---------------------------------------------------------------- the store
\* The store of examples/store.rs (SimpleStore, create_store, Effect::Push
\* and Effect::Pull) is not part of lib.rs and resources.rs as given; it is
\* modelled from the description of the bounded store: a capacity, a FIFO
\* buffer of values, a FIFO queue of waiting consumers and one of waiting
\* producers.
Producers == 0..(MaxProducers - 1)
Consumers == MaxProducers..(MaxProducers + MaxConsumers - 1)

SimpleStore_new(capacity) ==
    [capacity |-> capacity, buffer |-> <<>>, consumers |-> <<>>,
     producers |-> <<>>]

\* mutant: the value goes to the front of the buffer
SimpleStore_push_front(st, p, v) ==
    IF Len(st.consumers) > 0
    THEN [store |-> [st EXCEPT !.consumers = Tail(@)],
          ret |-> <<[process |-> Head(st.consumers), value |-> v]>>]
    ELSE IF Len(st.buffer) < st.capacity
         THEN [store |-> [st EXCEPT !.buffer = <<v>> \o @], ret |-> <<>>]
         ELSE [store |-> [st EXCEPT !.producers =
                              Append(@, [process |-> p, value |-> v])],
               ret |-> <<>>]

\* Push of value v by producer p: the store afterwards and the consumer
\* resumed with the value, if one was waiting
SimpleStore_push(st, p, v) ==
    IF Len(st.consumers) > 0
    THEN [store |-> [st EXCEPT !.consumers = Tail(@)],
          ret |-> <<[process |-> Head(st.consumers), value |-> v]>>]
    ELSE IF Len(st.buffer) < st.capacity
         THEN [store |-> [st EXCEPT !.buffer = Append(@, v)], ret |-> <<>>]
         ELSE [store |-> [st EXCEPT !.producers =
                              Append(@, [process |-> p, value |-> v])],
               ret |-> <<>>]

\* Pull by consumer c: the store afterwards, the consumer resumed with the
\* head value if there is one, and the waiting producer whose value moved in
SimpleStore_pull(st, c) ==
    IF Len(st.buffer) > 0
    THEN LET ret == <<[process |-> c, value |-> Head(st.buffer)]>>
             rest == Tail(st.buffer)
         IN IF Len(st.producers) > 0
            THEN [store |-> [st EXCEPT
                               !.buffer = Append(rest, Head(st.producers).value),
                               !.producers = Tail(@)],
                  ret |-> ret, woke |-> <<Head(st.producers).process>>]
            ELSE [store |-> [st EXCEPT !.buffer = rest],
                  ret |-> ret, woke |-> <<>>]
    ELSE [store |-> [st EXCEPT !.consumers = Append(@, c)],
          ret |-> <<>>, woke |-> <<>>]

\* the processes suspended in the store
Suspended(st) ==
    {st.consumers[i] : i \in 1..Len(st.consumers)}
        \cup {st.producers[i].process : i \in 1..Len(st.producers)}

engine ==
    <<time, steps, processes, future_events, processed_events, resources,
      panicked, nextSeq, last, held, rogue, nsched, until, npopped, scenario,
      entered>>

\* Simulation::create_store
create_store ==
    /\ scenario.kind = "store"
    /\ stores = <<>>
    /\ \E capacity \in 1..MaxCapacity :
          stores' = <<SimpleStore_new(capacity)>>
    /\ UNCHANGED <<engine, values>>

\* a producer that is not suspended yields Push with the next value
yield_Push ==
    /\ stores # <<>>
    /\ Len(values.pushed) < MaxPushes
    /\ \E p \in Producers \ Suspended(stores[1]) :
          LET v == Len(values.pushed)
              d == SimpleStore_push(stores[1], p, v)
          IN /\ stores' = <<d.store>>
             /\ values' = [values EXCEPT
                              !.pushed = Append(@, v),
                              !.pulled = @ \o d.ret]
    /\ UNCHANGED engine

\* a consumer that is not suspended yields Pull
yield_Pull ==
    /\ stores # <<>>
    /\ Len(values.pulls) < MaxPulls
    /\ \E c \in Consumers \ Suspended(stores[1]) :
          LET d == SimpleStore_pull(stores[1], c)
          IN /\ stores' = <<d.store>>
             /\ values' = [values EXCEPT
                              !.pulls = Append(@, c),
                              !.pulled = @ \o d.ret]
    /\ UNCHANGED engine

NextStore == create_store \/ yield_Push \/ yield_Pull

InitStore == Init /\ scenario = StoreTest
SpecStore == InitStore /\ [][NextStore]_vars

\* ------------------------------------------------------------------ claims
TimesQueued == {future_events[i].time : i \in 1..Len(future_events)}
Stepped == steps' # steps
LastEffect == get_effect(last.y[1])

\* C1: simulation time never goes backwards: time() after any operation is
\* at least time() before it.
C1_TimeNeverGoesBackwards == [][time' >= time]_vars

\* C2: every event of the future-event queue has a time at or after the
\* current simulation time.
C2_QueueNotBeforeNow == \A t \in TimesQueued : t >= time

\* C3: events of equal time are popped in the order they were pushed: once
\* an event is popped, no event of the same time pushed before it is still
\* in the queue.
C3_EqualTimesPoppedFifo ==
    last.event # <<>> =>
        \A i \in 1..Len(future_events) :
            future_events[i].time = last.event[1].time
                => future_events[i].seq > last.event[1].seq

Holders(r) == {p \in Pids : held[r][p] > 0}

\* C4 as stated: whatever the process bodies, the processes granted a
\* resource and not having released it are at most its quantity.
C4_HoldersAtMostQuantity_AnyBody ==
    \A r \in 1..Len(resources) :
        Cardinality(Holders(r)) <= resources[r].quantity

\* C4 amended: as long as no process yielded Release for a resource of which
\* it held no unit, the processes granted the resource and not having
\* released it are at most its quantity.
C4_HoldersAtMostQuantity ==
    \A r \in 1..Len(resources) :
        ~rogue[r] => Cardinality(Holders(r)) <= resources[r].quantity

\* C4 witness: a release by a holder handed the only unit over to a waiter
C4_Witness ==
    /\ last.kind = "Yielded" /\ last.woke # <<>> /\ ~panicked
    /\ LastEffect.tag = "Release"
    /\ ~rogue[LastEffect.id + 1]
    /\ resources[LastEffect.id + 1].quantity = 1
    /\ Holders(LastEffect.id + 1) = {last.woke[1].process}
    /\ last.woke[1].process # last.event[1].process

\* C5: blocked requesters are granted in the order of their requests: the
\* wait queue is ordered by request, oldest first, and a release wakes a
\* waiter older than every waiter it leaves in the queue.
C5_WaitersGrantedInRequestOrder ==
    /\ \A r \in 1..Len(resources) :
          \A i, j \in 1..Len(resources[r].queue) :
              i < j => resources[r].queue[i].seq < resources[r].queue[j].seq
    /\ (last.woke # <<>> /\ ~panicked) =>
          \A i \in 1..Len(resources[LastEffect.id + 1].queue) :
              resources[LastEffect.id + 1].queue[i].seq > last.woke[1].seq

\* C5 witness: a release woke a waiter and left a later one in the queue
C5_Witness ==
    /\ last.woke # <<>> /\ ~panicked
    /\ Len(resources[LastEffect.id + 1].queue) >= 1

\* C6: the available count of every resource is between 0 and its quantity.
C6_AvailableWithinQuantity ==
    \A r \in 1..Len(resources) :
        0 <= resources[r].available
            /\ resources[r].available <= resources[r].quantity

\* C6 witness: a release without waiter brought available back to quantity
C6_Witness ==
    /\ last.kind = "Yielded" /\ ~panicked
    /\ LastEffect.tag = "Release" /\ last.woke = <<>>
    /\ resources[LastEffect.id + 1].quantity >= 1
    /\ resources[LastEffect.id + 1].available
           = resources[LastEffect.id + 1].quantity

\* C7: the trace is append-only; a step appends the pair (popped event,
\* yielded state) exactly when the resumed process yielded a state with
\* should_log() true, and nothing otherwise; no other operation touches it.
C7_TraceIsTheLoggedYields ==
    [][IF Stepped /\ last'.kind = "Yielded" /\ should_log(last'.y[1])
       THEN processed_events' =
                Append(processed_events, <<last'.event[1], last'.y[1]>>)
       ELSE processed_events' = processed_events]_vars

\* C7 witness: a yield was logged, later steps added nothing
C7_Witness ==
    /\ Len(processed_events) = 1
    /\ steps >= 3
    /\ last.kind = "Yielded" /\ ~should_log(last.y[1])

\* C8: a resume is given the time of the popped event, which is the new
\* time(), and the state of the popped event, the earliest of the queue;
\* the events a yield inserts carry the yielded state: for the yielding
\* process after a TimeOut, a Trace, a Release or a granted Request, for the
\* target after an Event effect.
C8_ResumeSeesTheEventState ==
    [][(Stepped /\ last'.ctx # <<>>) =>
          LET event == last'.event[1]
              ctx == last'.ctx[1]
          IN /\ \E i \in 1..Len(future_events) : future_events[i] = event
             /\ \A t \in TimesQueued : event.time <= t
             /\ ctx.time = event.time
             /\ ctx.time = time'
             /\ ctx.state = event.state
             /\ (last'.kind = "Yielded" /\ ~panicked') =>
                   LET y == last'.y[1]
                       effect == get_effect(y)
                       target ==
                           IF effect.tag = "Event" THEN effect.id
                           ELSE event.process
                       resumes ==
                           \/ effect.tag \in {"TimeOut", "Trace", "Release", "Event"}
                           \/ effect.tag = "Request" /\ last'.granted # <<>>
                   IN resumes <=>
                         \E i \in 1..Len(future_events') :
                             /\ future_events'[i].seq >= nextSeq
                             /\ future_events'[i].process = target
                             /\ future_events'[i].state = y]_vars

\* C8 witness: a process was resumed with the state another process yielded
C8_Witness ==
    /\ last.kind = "Yielded"
    /\ time > 0
    /\ get_effect(last.ctx[1].state).tag = "Event"
    /\ LastEffect.tag = "Request"

\* C9: a completed process stays a tombstone and ids are never reused; a
\* step that pops an event addressed to a tombstone fails without resuming,
\* and the step in which a process returns leaves a tombstone.
C9_CompletedIsTerminal ==
    [][/\ Len(processes') >= Len(processes)
       /\ \A p \in 1..Len(processes) :
             processes[p] = <<>> => processes'[p] = <<>>
       /\ (Stepped /\ last'.event # <<>>) =>
             LET process == last'.event[1].process IN
             /\ (process < Len(processes) /\ processes[process + 1] = <<>>)
                   => (panicked' /\ last'.kind = "noresume")
             /\ last'.kind = "Complete" => processes'[process + 1] = <<>>]_vars

\* C9 witness: an event addressed to a completed process was popped
C9_Witness ==
    /\ panicked /\ last.kind = "noresume"
    /\ last.event[1].process < Len(processes)
    /\ processes[last.event[1].process + 1] = <<>>

\* C10: a step in which the process yields TimeOut(dt) with dt < 0 fails,
\* and inserts no event for a time before the current one.
C10_NegativeTimeoutIsFatal ==
    (last.kind = "Yielded" /\ LastEffect.tag = "TimeOut" /\ LastEffect.t < 0)
        => /\ panicked
           /\ \A i \in 1..Len(future_events) :
                 future_events[i].state = last.y[1]
                     => future_events[i].time >= last.event[1].time

\* a call of Simulation::step, by the owner or by run
StepCalled == nextSeq' = nextSeq + 2
Running == until # <<>>
Returns == until # <<>> /\ until' = <<>>

\* C11: a step called on an empty future-event queue is a no-op: it leaves
\* the time, the step counter, the trace, the process registry and the
\* resources as they were.
C11_EmptyStepIsNoOp ==
    [][(StepCalled /\ Len(future_events) = 0)
           => UNCHANGED <<time, steps, processed_events, processes,
                          resources>>]_vars

\* C12: run(NSteps(N)) counts the steps that processed an event: when it
\* returns, exactly N events have been processed since construction.
C12_NStepsCountsProcessedEvents ==
    [][(Returns /\ until[1].tag = "NSteps") => npopped = until[1].v]_vars

\* C13: run(Time(T)) evaluates the condition before each step: while it
\* runs, no step is executed once time() >= T, and it returns only with
\* time() >= T and returns then, changing nothing. Every event the run
\* processes but its last is followed by a step of the run, which starts
\* with time() < T: at most one processed event has a time >= T.
C13_RunTimeChecksBeforeEachStep ==
    [][(Running /\ until[1].tag = "Time")
           => /\ StepCalled => time < until[1].v
              /\ Returns => time >= until[1].v
              /\ time >= until[1].v
                     => /\ Returns
                        /\ UNCHANGED <<time, steps, processed_events,
                                       future_events>>]_vars

\* run(Time(T)) has processed an event at or after T and is about to return
C13_Witness ==
    /\ until = <<Time(MaxTime)>>
    /\ steps > entered[1].steps
    /\ last.event # <<>>
    /\ last.event[1].time >= MaxTime
    /\ time >= MaxTime

\* C14: run(NoEvents) returns exactly when the future-event queue is empty:
\* it steps only on a non-empty queue, and on an empty queue (at the call or
\* later) its next move is the return, with time, step counter and trace
\* unchanged.
C14_RunNoEventsStopsOnEmptyQueue ==
    [][(Running /\ until[1].tag = "NoEvents")
           => /\ StepCalled => Len(future_events) > 0
              /\ Returns => Len(future_events) = 0
              /\ Len(future_events) = 0
                     => /\ Returns
                        /\ UNCHANGED <<time, steps, processed_events,
                                       future_events>>]_vars

\* run(NoEvents) has processed events, emptied the queue and is about to
\* return
C14_Witness ==
    /\ until = <<NoEvents>>
    /\ npopped > entered[1].npopped
    /\ Len(future_events) = 0

EventsQueued == {future_events[i] : i \in 1..Len(future_events)}
\* a call of Simulation::schedule_event
Scheduled == nsched' # nsched

Key(e) == <<e.process, e.state>>
Keys ==
    Pids \X (InitStates \cup
             UNION {{b.code[i] : i \in 1..Len(b.code)} : b \in Bodies})
Waiters ==
    UNION {{<<r, i>> : i \in 1..Len(resources[r].queue)} :
              r \in 1..Len(resources)}
\* the events with key k in the future-event queue and in the wait queues
NumPending(k) ==
    Cardinality({i \in 1..Len(future_events) : Key(future_events[i]) = k})
        + Cardinality({w \in Waiters :
                          Key(resources[w[1]].queue[w[2]]) = k})
\* the event the step being taken pops, and the one its yield creates
NumPopped(k) ==
    LET item == pop(future_events).item
    IN IF item # <<>> /\ Key(item[1]) = k THEN 1 ELSE 0
NumCreated(k) ==
    IF last'.kind = "Yielded" /\ ~panicked'
           /\ get_effect(last'.y[1]).tag # "Wait"
    THEN LET y == last'.y[1]
             target == IF get_effect(y).tag = "Event" THEN get_effect(y).id
                       ELSE last'.event[1].process
         IN IF k = <<target, y>> THEN 1 ELSE 0
    ELSE 0

\* C17 (as stated): every event put in the future-event queue or in a wait
\* queue is eventually delivered under repeated steps. Once the future-event
\* queue is empty every further step is a no-op, so no event may then be
\* left in a wait queue.
C17_NoEventLeftWaiting ==
    (Len(future_events) = 0 /\ ~panicked)
        => \A r \in 1..Len(resources) : resources[r].queue = <<>>

\* C17 (amended): no event is silently discarded: a step takes out of the
\* future-event queue and the wait queues together only the event it pops,
\* and adds the one event its yield makes (none for Wait); a hand-over moves
\* a waiter from the wait queue to the future-event queue; no other
\* operation but schedule_event changes the pending events.
C17_EventsLeaveOnlyByDelivery ==
    [][/\ StepCalled
           => \A k \in Keys :
                 NumPending(k)' = NumPending(k) - NumPopped(k) + NumCreated(k)
       /\ (~StepCalled /\ ~Scheduled)
           => \A k \in Keys : NumPending(k)' = NumPending(k)]_vars

\* a release has just handed the resource to a waiter, whose request is now
\* in the future-event queue
C17_Witness ==
    /\ last.kind = "Yielded"
    /\ last.woke # <<>>
    /\ \E e \in EventsQueued : Key(e) = Key(last.woke[1])

Max(a, b) == IF a > b THEN a ELSE b
RECURSIVE SumFirst(_, _)
SumFirst(d, n) == IF n = 0 THEN 0 ELSE SumFirst(d, n - 1) + d[n]
\* a step of which the release woke a waiter
HandsOver == StepCalled /\ last'.kind = "Yielded" /\ last'.woke # <<>>

\* C18: contention on a resource of quantity 1 serialises the holders: with
\* A holding for a from time 0 and B holding for b from time s,
\* run(NoEvents) returns at time max(a, s) + b (10 for 7, 3 and 2); when B
\* had to wait behind A (0 < s < a) the hand-over is at time a, A's release.
\* In general the waiter woken by a release is rescheduled at the time of
\* the release, not at the time of its request.
C18_ContentionSerialisesHolders ==
    [][/\ (Returns /\ scenario.kind = "resource")
           => /\ time = Max(scenario.d[1], scenario.t0) + scenario.d[2]
              /\ time' = time
       /\ HandsOver
           => /\ last'.woke[1].time = time'
              /\ \E e \in EventsQueued' :
                    Key(e) = Key(last'.woke[1]) /\ e.time = time'
       /\ (HandsOver /\ scenario.kind = "resource"
               /\ 0 < scenario.t0 /\ scenario.t0 < scenario.d[1])
           => /\ time' = scenario.d[1]
              /\ last'.woke[1].process = 1]_vars

\* tests::resource as written has run to its end, at time 10, with B's
\* request logged at 2 and B's release at 10
C18_Witness ==
    /\ scenario = Contention(HoldA, HoldB, StartB)
    /\ until = <<>>
    /\ Len(future_events) = 0
    /\ steps = scenario.limit
    /\ time = 10
    /\ \E i, j \in 1..Len(processed_events) :
          /\ processed_events[i][1].process = 1
          /\ processed_events[i][1].time = StartB
          /\ get_effect(processed_events[i][2]).tag = "Request"
          /\ processed_events[j][1].process = 1
          /\ processed_events[j][1].time = 10
          /\ get_effect(processed_events[j][2]).tag = "Release"

\* C19: a TimeOut(dt) yielded by process p at time now puts exactly one
\* event (now + dt, p, the yielded state) in the queue and changes nothing
\* else, so the process of tests::it_works, started at t0 with delays d, is
\* resumed by its k-th step at t0 + d[1] + ... + d[k-1] (1, 3, 6 after 2, 3,
\* 4 steps for t0 = 0 and delays 1, 2, 3).
C19_TimeoutsAddUp ==
    [][/\ (StepCalled /\ last'.kind = "Yielded"
               /\ get_effect(last'.y[1]).tag = "TimeOut")
           => /\ \E e \in EventsQueued' :
                    /\ e \notin EventsQueued
                    /\ EventsQueued' =
                           (EventsQueued \ {last'.event[1]}) \cup {e}
                    /\ e.time = time' + get_effect(last'.y[1]).t
                    /\ e.process = last'.event[1].process
                    /\ e.state = last'.y[1]
              /\ Len(future_events') = Len(future_events)
              /\ UNCHANGED resources
       /\ (StepCalled /\ scenario.kind = "it_works" /\ processes # <<>>)
           => time' = scenario.t0 + SumFirst(scenario.d, steps)]_vars

\* tests::it_works as written, after its fourth step
C19_Witness ==
    /\ scenario = Timeouts(0, [i \in 1..MaxTimeouts |-> i])
    /\ steps = 4
    /\ time = 6
    /\ last.kind = "Yielded"
    /\ get_effect(last.y[1]).tag = "TimeOut"

\* a step in which a process yields Release for an existing resource
ReleaseStep ==
    /\ StepCalled
    /\ last'.kind = "Yielded"
    /\ get_effect(last'.y[1]).tag = "Release"
    /\ get_effect(last'.y[1]).id < Len(resources)
\* that process holds a unit of the resource when it yields
ReleaserHolds ==
    held[get_effect(last'.y[1]).id + 1][last'.event[1].process] > 0
\* what the step does with the Release: the head waiter is woken at the
\* current time if there is one, else a unit is freed if one is taken (a
\* panic otherwise), and the releasing process is rescheduled at the
\* current time
ReleaseDispatched ==
    LET r == get_effect(last'.y[1]).id + 1
        res == resources[r]
    IN /\ Len(res.queue) > 0
           => /\ ~panicked'
              /\ resources'[r] = [res EXCEPT !.queue = Tail(@)]
              /\ last'.woke # <<>>
              /\ Key(last'.woke[1]) = Key(Head(res.queue))
              /\ \E e \in EventsQueued' \ EventsQueued :
                    Key(e) = Key(Head(res.queue)) /\ e.time = time'
       /\ (Len(res.queue) = 0 /\ res.available < res.quantity)
           => /\ ~panicked'
              /\ resources'[r] = [res EXCEPT !.available = @ + 1]
       /\ (Len(res.queue) = 0 /\ res.available >= res.quantity)
           => panicked'
       /\ ~panicked'
           => \E e \in EventsQueued' \ EventsQueued :
                 /\ e.process = last'.event[1].process
                 /\ e.state = last'.y[1]
                 /\ e.time = time'

\* C20: there is no ownership check on Release: a Release yielded by a
\* process that holds no unit of the resource is dispatched exactly like a
\* holder's.
C20_ReleaseIsNotChecked ==
    [][/\ (ReleaseStep /\ ~ReleaserHolds) => ReleaseDispatched
       /\ (ReleaseStep /\ ReleaserHolds) => ReleaseDispatched]_vars

\* a process whose first yield is a Release has just released a resource it
\* never requested, and woke a waiter
C20_Witness ==
    /\ last.kind = "Yielded"
    /\ LastEffect.tag = "Release"
    /\ last.woke # <<>>
    /\ \E r \in Rids :
          processes[last.event[1].process + 1]
              = <<[Rogue(r) EXCEPT !.code = Tail(@)]>>

\* C21: when a step fails fatally the simulation halts at that step (no
\* operation runs after the failure) and the trace of the earlier steps is
\* preserved: the failing step removes and alters no entry, it adds at most
\* its own.
C21_FailureKeepsTheTrace ==
    [][/\ ~panicked
       /\ panicked'
           => /\ StepCalled
              /\ Len(processed_events') \in
                     {Len(processed_events), Len(processed_events) + 1}
              /\ SubSeq(processed_events', 1, Len(processed_events))
                     = processed_events]_vars

\* a Release has failed in a step taken after two entries were logged
C21_Witness ==
    /\ panicked
    /\ last.kind = "Yielded"
    /\ LastEffect.tag = "Release"
    /\ Len(processed_events) > 2

\* C22: the values pushed to a store are handed to the pulls in FIFO order
\* (the k-th pull made gets the k-th value pushed), the buffer never holds
\* more than capacity values, and a Pull on an empty store suspends the
\* consumer until the next Push: the consumers waiting are the pulls not
\* served yet, and they wait only while every value pushed has been handed
\* over.
C22_StoreIsFifoAndBounded ==
    \A s \in 1..Len(stores) :
        LET st == stores[s] IN
        /\ Len(st.buffer) <= st.capacity
        /\ Len(values.pulled) <= Len(values.pushed)
        /\ Len(values.pulled) <= Len(values.pulls)
        /\ \A k \in 1..Len(values.pulled) :
              values.pulled[k] =
                  [process |-> values.pulls[k], value |-> values.pushed[k]]
        /\ st.consumers =
               SubSeq(values.pulls, Len(values.pulled) + 1, Len(values.pulls))
        /\ st.consumers # <<>>
               => /\ st.buffer = <<>>
                  /\ Len(values.pulled) = Len(values.pushed)

\* values have gone through a store of capacity MaxCapacity, which is full
\* again with a producer waiting
C22_Witness ==
    /\ stores # <<>>
    /\ stores[1].capacity = MaxCapacity
    /\ Len(stores[1].buffer) = MaxCapacity
    /\ stores[1].producers # <<>>
    /\ Len(values.pulled) > 0

\* the events a step adds to the future-event queue
NewEvents == EventsQueued' \ EventsQueued

\* C23: a Release yielded by p at time now that does not fail adds to the
\* future-event queue the head of the wait queue if there is one (no waiter
\* otherwise) and exactly one event for p, all with the time now.
C23_ReleaseAddsWaiterAndReleaser ==
    [][(ReleaseStep /\ ~panicked')
           => LET r == get_effect(last'.y[1]).id + 1
                  p == last'.event[1].process
                  queue == resources[r].queue
                  own == {e \in NewEvents : e.state = last'.y[1]}
              IN /\ Cardinality(own) = 1
                 /\ \A e \in own : e.process = p
                 /\ \A e \in NewEvents : e.time = time'
                 /\ queue = <<>> => NewEvents = own
                 /\ queue # <<>>
                        => /\ Cardinality(NewEvents \ own) = 1
                           /\ \A e \in NewEvents \ own : Key(e) = Key(Head(queue))
                 /\ Len(future_events')
                        = Len(future_events) - 1 + Cardinality(NewEvents)
                 /\ EventsQueued \ {last'.event[1]} \subseteq EventsQueued']_vars

\* a Release has just woken a waiter at a time after 0, with a second waiter
\* left in the queue
C23_Witness ==
    /\ last.kind = "Yielded"
    /\ LastEffect.tag = "Release"
    /\ ~panicked
    /\ last.woke # <<>>
    /\ time > 0
    /\ \E r \in 1..Len(resources) : resources[r].queue # <<>>

\* a step in which a process yields Request for an existing resource
RequestStep ==
    /\ StepCalled
    /\ last'.kind = "Yielded"
    /\ get_effect(last'.y[1]).tag = "Request"
    /\ get_effect(last'.y[1]).id < Len(resources)
\* the event with its sequence number left out
Plain(e) == [time |-> e.time, process |-> e.process, state |-> e.state]

\* C24: a Request yielded by p at time now either takes a unit (available >
\* 0: available goes down by one and the request event (now, p, yielded
\* state) is put in the future-event queue) or waits (available = 0: the
\* request event goes to the tail of the wait queue and nothing is put in
\* the future-event queue); never both, and no other process is resumed.
C24_RequestTakesOrWaits ==
    [][RequestStep
           => LET r == get_effect(last'.y[1]).id + 1
                  res == resources[r]
                  req == [time |-> time', process |-> last'.event[1].process,
                          state |-> last'.y[1]]
              IN /\ ~panicked'
                 /\ \A r2 \in 1..Len(resources) :
                       r2 # r => resources'[r2] = resources[r2]
                 /\ EventsQueued \ {last'.event[1]} \subseteq EventsQueued'
                 /\ res.available > 0
                        => /\ resources'[r] = [res EXCEPT !.available = @ - 1]
                           /\ {Plain(e) : e \in NewEvents} = {req}
                           /\ Len(future_events') = Len(future_events)
                 /\ res.available = 0
                        => /\ resources'[r].available = 0
                           /\ Len(resources'[r].queue) = Len(res.queue) + 1
                           /\ SubSeq(resources'[r].queue, 1, Len(res.queue))
                                  = res.queue
                           /\ Plain(resources'[r].queue[Len(res.queue) + 1])
                                  = req
                           /\ NewEvents = {}
                           /\ Len(future_events')
                                  = Len(future_events) - 1]_vars

\* a Request has just been queued behind another waiter
C24_Witness ==
    /\ last.kind = "Yielded"
    /\ LastEffect.tag = "Request"
    /\ last.granted = <<>>
    /\ \E r \in 1..Len(resources) :
          /\ Len(resources[r].queue) > 1
          /\ resources[r].queue[Len(resources[r].queue)].process
                 = last.event[1].process

\* C25: a release_and_schedule_next that returns raises available, by
\* exactly one, if and only if it returns None, that is if and only if the
\* wait queue was empty; when it hands the resource to a waiter available is
\* unchanged and the wait queue loses exactly its head.
C25_AvailableGrowsIffNoWaiter ==
    [][(ReleaseStep /\ ~panicked')
           => LET r == get_effect(last'.y[1]).id + 1
                  res == resources[r]
                  res1 == resources'[r]
              IN /\ (last'.woke = <<>>) <=> (res.queue = <<>>)
                 /\ (res1.available > res.available) <=> (last'.woke = <<>>)
                 /\ last'.woke = <<>>
                        => /\ res1.available = res.available + 1
                           /\ res1.queue = res.queue
                 /\ last'.woke # <<>>
                        => /\ res1.available = res.available
                           /\ res1.queue = Tail(res.queue)
                 /\ res1.quantity = res.quantity]_vars

\* a Release has just given a unit back to a resource nobody waits for
C25_Witness ==
    /\ last.kind = "Yielded"
    /\ LastEffect.tag = "Release"
    /\ ~panicked
    /\ last.woke = <<>>
    /\ LastEffect.id < Len(resources)
    /\ resources[LastEffect.id + 1].available > 0

\* C26: over-release of a SimpleResource is fatal: a Release dispatched with
\* an empty wait queue and available = quantity fails instead of raising
\* available above quantity, and a Release for an existing resource fails in
\* no other situation.
C26_OverReleaseIsFatal ==
    [][ReleaseStep
           => LET res == resources[get_effect(last'.y[1]).id + 1]
              IN /\ panicked'
                     <=> (res.queue = <<>> /\ res.available = res.quantity)
                 /\ panicked'
                     => /\ resources' = resources
                        /\ future_events' = pop(future_events).data]_vars

\* a Release of a resource with every unit available and nobody waiting has
\* just failed
C26_Witness ==
    /\ panicked
    /\ last.kind = "Yielded"
    /\ LastEffect.tag = "Release"
    /\ LastEffect.id < Len(resources)
    /\ resources[LastEffect.id + 1].quantity > 0
    /\ resources[LastEffect.id + 1].available
           = resources[LastEffect.id + 1].quantity

\* a step in which a process yields the effect tag
YieldStep(tag) ==
    /\ StepCalled
    /\ last'.kind = "Yielded"
    /\ get_effect(last'.y[1]).tag = tag
\* a step resumes no process but the one its popped event is addressed to
OnlyTheAddresseeResumed ==
    StepCalled
        => \A q \in 1..Len(processes) :
              processes'[q] # processes[q]
                  => /\ Len(future_events) > 0
                     /\ pop(future_events).item[1].process = q - 1

\* C27: an Event{time: dt, process: target} effect yielded by p at time now
\* puts exactly one event (now + dt, target, yielded state) in the queue and
\* nothing for p unless target = p; p, like every process, is resumed only
\* by a step that pops an event addressed to it.
C27_EventEffectSchedulesTarget ==
    [][/\ YieldStep("Event")
           => LET effect == get_effect(last'.y[1])
              IN /\ ~panicked'
                 /\ {Plain(e) : e \in NewEvents}
                        = {[time |-> time' + effect.t, process |-> effect.id,
                            state |-> last'.y[1]]}
                 /\ Cardinality(NewEvents) = 1
                 /\ Len(future_events') = Len(future_events)
                 /\ EventsQueued \ {last'.event[1]} \subseteq EventsQueued'
                 /\ UNCHANGED resources
       /\ OnlyTheAddresseeResumed]_vars

\* a process has just yielded an Event effect for another process at a time
\* after 0
C27_Witness ==
    /\ last.kind = "Yielded"
    /\ LastEffect.tag = "Event"
    /\ LastEffect.id # last.event[1].process
    /\ time > 0
    /\ \E e \in EventsQueued :
          /\ e.process = LastEffect.id
          /\ e.state = last.y[1]
          /\ e.time = time + LastEffect.t

\* the events of the future-event queue addressed to process q
EventsFor(q) == {e \in EventsQueued : e.process = q}

\* C28 (as stated), in a simulation with a single process, where no other
\* process can have inserted anything: once the process has yielded an
\* Event effect and then Wait (its body is at its end and the Event yield is
\* in the trace), an event that resumes it was inserted by schedule_event.
C28_WaitEndsOnlyByOthers ==
    [][(/\ StepCalled
        /\ Len(processes) = 1
        /\ processes[1] = <<[Notifier(0) EXCEPT !.code = <<>>]>>
        /\ \E i \in 1..Len(processed_events) :
              get_effect(processed_events[i][2]).tag = "Event"
        /\ Len(future_events) > 0)
           => pop(future_events).item[1].state \in InitStates]_vars

\* C28 (amended): a Wait puts no event in the queue and changes no resource;
\* a step resumes only the process its popped event is addressed to, so a
\* process for which the queue holds no event is left as it is by every
\* step.
C28_WaitSchedulesNothing ==
    [][/\ YieldStep("Wait")
           => /\ ~panicked'
              /\ NewEvents = {}
              /\ Len(future_events') = Len(future_events) - 1
              /\ future_events' = pop(future_events).data
              /\ UNCHANGED resources
       /\ StepCalled
           => \A q \in 1..Len(processes) :
                 EventsFor(q - 1) = {} => processes'[q] = processes[q]]_vars

\* a process has just yielded Wait and no event is queued for it, while
\* events for another process are
C28_Witness ==
    /\ last.kind = "Yielded"
    /\ LastEffect.tag = "Wait"
    /\ EventsFor(last.event[1].process) = {}
    /\ future_events # <<>>

\* the queued events that carry a yielded Trace state
TraceEvents == {e \in EventsQueued : get_effect(e.state).tag = "Trace"}

\* C29: a Trace yielded by process p at time now puts exactly one event
\* (now, p, the yielded state) in the queue and touches no resource; while
\* that event is queued the clock never passes now, and the step that pops
\* it resumes p with the clock at now.
C29_TraceResumesAtTheSameInstant ==
    [][/\ YieldStep("Trace")
           => /\ ~panicked'
              /\ {Plain(e) : e \in NewEvents}
                     = {[time |-> time', process |-> last'.event[1].process,
                         state |-> last'.y[1]]}
              /\ Cardinality(NewEvents) = 1
              /\ time' = last'.event[1].time
              /\ Len(future_events') = Len(future_events)
              /\ UNCHANGED resources
       /\ \A e \in TraceEvents' : time' <= e.time
       /\ TraceEvents \ TraceEvents'
              \subseteq {e \in TraceEvents :
                            /\ StepCalled
                            /\ last'.event = <<e>>
                            /\ time' = e.time}]_vars

\* the event of a Trace has been popped and its process resumed, the clock
\* reading the time of the yield
C29_Witness ==
    /\ last.kind \in {"Yielded", "Complete"}
    /\ get_effect(last.event[1].state).tag = "Trace"
    /\ time = last.event[1].time
    /\ \E i \in 1..Len(processed_events) :
          /\ get_effect(processed_events[i][2]).tag = "Trace"
          /\ processed_events[i][1].time = time

\* C30: a request event in the wait queue of a resource is changed in
\* nothing but its time. No action rewrites an entry of a wait queue: a
\* queue loses its head, gains a last entry or stays as it is. When a
\* release hands the resource over, the event returned and queued is the
\* head waiter with its process and its state, the Request it yielded for
\* that resource, and with the time of the release event; the release event
\* is queued as it was built: the current time, the releaser, the yielded
\* state.
C30_WaiterKeepsAllButItsTime ==
    [][/\ \A r \in 1..Len(resources) :
             LET queue == resources[r].queue
                 queue2 == resources'[r].queue
             IN \/ queue2 = queue
                \/ queue # <<>> /\ queue2 = Tail(queue)
                \/ queue2 # <<>> /\ SubSeq(queue2, 1, Len(queue2) - 1) = queue
       /\ HandsOver
           => LET r == get_effect(last'.y[1]).id + 1
                  waiter == Head(resources[r].queue)
                  release == [time |-> time',
                              process |-> last'.event[1].process,
                              state |-> last'.y[1]]
              IN /\ Plain(last'.woke[1]) = Plain([waiter EXCEPT !.time = time'])
                 /\ get_effect(waiter.state) = Request(r - 1)
                 /\ time' = last'.event[1].time
                 /\ {Plain(e) : e \in NewEvents}
                        = {Plain([waiter EXCEPT !.time = time']), release}
                 /\ get_effect(last'.y[1]) = Release(r - 1)]_vars

\* a release has handed the resource to a waiter whose request was made at
\* another time than the release
C30_Witness ==
    /\ last.kind = "Yielded"
    /\ last.woke # <<>>
    /\ \E i \in 1..Len(processed_events) :
          /\ processed_events[i][2] = last.woke[1].state
          /\ processed_events[i][1].process = last.woke[1].process
          /\ processed_events[i][1].time # last.woke[1].time

\* a run whose queue is empty and whose condition reads something that the
\* steps left to it cannot bring about: a time not reached, or a step count
\* already passed
Stuck ==
    /\ Running
    /\ Len(future_events) = 0
    /\ \/ until[1].tag = "Time" /\ time < until[1].v
       \/ until[1].tag = "NSteps" /\ steps > until[1].v

C32_WaitersOnlyWhenNothingAvailable ==
    /\ [](\A r \in 1..Len(resources) :
             /\ resources[r].queue # <<>> => resources[r].available = 0
             /\ resources[r].available \in 0..resources[r].quantity)
    /\ [][\A r \in 1..Len(resources) :
             LET res == resources[r]
                 res1 == resources'[r]
             IN /\ Len(res1.queue) > Len(res.queue)
                    => res.available = 0 /\ res1.available = 0
                /\ res1.available > res.available
                    => res.queue = <<>> /\ res1.queue = <<>>
                /\ res1.quantity = res.quantity]_vars

\* a process waits for a resource that has units, all of them taken, after
\* a step that queued its request
C32_Witness ==
    /\ last.kind = "Yielded"
    /\ LastEffect.tag = "Request"
    /\ last.granted = <<>>
    /\ \E r \in 1..Len(resources) :
          /\ resources[r].quantity > 0
          /\ resources[r].available = 0
          /\ resources[r].queue # <<>>
          /\ Key(resources[r].queue[Len(resources[r].queue)])
                 = <<last.event[1].process, last.y[1]>>

====
